---- MODULE Spec2Model ----
(***************************************************************************)
(* Model of the NuGet plugin of Relicta (plugin.go): configuration         *)
(* resolution, source-URL and package-path validation, artifact discovery  *)
(* and the sequential push of the located packages.                        *)
(*                                                                         *)
(* Go strings are TLA+ strings; the string functions of the Go standard    *)
(* library the plugin calls are operators that compute on the characters.  *)
(* A Go error value is a record [nil, msg].                                *)
(***************************************************************************)
EXTENDS Integers, Sequences, FiniteSets, TLC

(***************************************************************************)
(* Bounds of the model.                                                    *)
(***************************************************************************)
MaxFiles == 3

MaxIPs == 2

(***************************************************************************)
(* package strings                                                         *)
(***************************************************************************)
Char(s, i) == SubSeq(s, i, i)

HasPrefix(s, prefix) ==
    /\ Len(prefix) <= Len(s)
    /\ SubSeq(s, 1, Len(prefix)) = prefix

HasSuffix(s, suffix) ==
    /\ Len(suffix) <= Len(s)
    /\ SubSeq(s, Len(s) - Len(suffix) + 1, Len(s)) = suffix

RECURSIVE IndexFrom(_, _, _)
IndexFrom(s, substr, i) ==
    IF i + Len(substr) - 1 > Len(s) THEN 0
    ELSE IF SubSeq(s, i, i + Len(substr) - 1) = substr THEN i
         ELSE IndexFrom(s, substr, i + 1)

\* strings.Index, 1-based; 0 when substr does not occur.
Index(s, substr) == IndexFrom(s, substr, 1)

RECURSIVE LastIndexFrom(_, _, _)
LastIndexFrom(s, substr, i) ==
    IF i < 1 THEN 0
    ELSE IF SubSeq(s, i, i + Len(substr) - 1) = substr THEN i
         ELSE LastIndexFrom(s, substr, i - 1)

\* strings.LastIndex, 1-based; 0 when substr does not occur.
LastIndex(s, substr) == LastIndexFrom(s, substr, Len(s) - Len(substr) + 1)

Contains(s, substr) == Index(s, substr) # 0

TrimPrefix(s, prefix) ==
    IF HasPrefix(s, prefix) THEN SubSeq(s, Len(prefix) + 1, Len(s)) ELSE s

Upper == "ABCDEFGHIJKLMNOPQRSTUVWXYZ"

Lower == "abcdefghijklmnopqrstuvwxyz"

Digits == "0123456789"

UpperChars == {Char(Upper, i) : i \in 1..Len(Upper)}

LowerChar(c) ==
    IF c \in UpperChars THEN Char(Lower, Index(Upper, c)) ELSE c

RECURSIVE ToLower(_)
ToLower(s) ==
    IF s = "" THEN "" ELSE LowerChar(Char(s, 1)) \o ToLower(Tail(s))

RECURSIVE ReplaceAll(_, _, _)
\* strings.ReplaceAll for a one-character old string.
ReplaceAll(s, old, new) ==
    IF s = "" THEN ""
    ELSE (IF Char(s, 1) = old THEN new ELSE Char(s, 1))
            \o ReplaceAll(Tail(s), old, new)

IsSpace(c) == c \in {" ", "\n", "\t", "\r"}

RECURSIVE TrimLeft(_)
TrimLeft(s) ==
    IF s # "" /\ IsSpace(Char(s, 1)) THEN TrimLeft(Tail(s)) ELSE s

RECURSIVE TrimRight(_)
TrimRight(s) ==
    IF s # "" /\ IsSpace(Char(s, Len(s)))
    THEN TrimRight(SubSeq(s, 1, Len(s) - 1)) ELSE s

TrimSpace(s) == TrimRight(TrimLeft(s))

\* fmt.Sprintf("%d", n)
FormatInt(n) == ToString(n)

(***************************************************************************)
(* Go error values                                                         *)
(***************************************************************************)
NilError == [nil |-> TRUE, msg |-> ""]

Errorf(m) == [nil |-> FALSE, msg |-> m]

(***************************************************************************)
(* path/filepath: Clean                                                    *)
(***************************************************************************)
Separator == "/"

RECURSIVE SplitPath(_)
\* The elements of a path between separators, empty elements included.
SplitPath(s) ==
    LET i == Index(s, Separator)
    IN  IF i = 0 THEN <<s>>
        ELSE <<SubSeq(s, 1, i - 1)>> \o SplitPath(SubSeq(s, i + 1, Len(s)))

RECURSIVE CleanElems(_, _, _)
\* Processes the elements left to right; out is the stack of kept elements.
CleanElems(elems, out, rooted) ==
    IF elems = <<>> THEN out
    ELSE LET e == Head(elems)
             rest == Tail(elems)
         IN  IF e = "" \/ e = "." THEN CleanElems(rest, out, rooted)
             ELSE IF e = ".."
                  THEN IF out # <<>> /\ out[Len(out)] # ".."
                       THEN CleanElems(rest, SubSeq(out, 1, Len(out) - 1), rooted)
                       ELSE IF rooted THEN CleanElems(rest, out, rooted)
                            ELSE CleanElems(rest, Append(out, ".."), rooted)
                  ELSE CleanElems(rest, Append(out, e), rooted)

RECURSIVE JoinPath(_)
JoinPath(elems) ==
    IF elems = <<>> THEN ""
    ELSE IF Len(elems) = 1 THEN elems[1]
         ELSE elems[1] \o Separator \o JoinPath(Tail(elems))

Clean(path) ==
    IF path = "" THEN "."
    ELSE LET rooted == HasPrefix(path, Separator)
             body == JoinPath(CleanElems(SplitPath(path), <<>>, rooted))
         IN  IF rooted THEN Separator \o body
             ELSE IF body = "" THEN "." ELSE body

(***************************************************************************)
(* validatePackagePath                                                     *)
(***************************************************************************)
\* validatePackagePath with absolute paths rejected as well.
validatePackagePathRelativeOnly(path) ==
    IF path = "" THEN Errorf("package path cannot be empty")
    ELSE IF Contains(path, "..")
         THEN Errorf("path traversal detected: cannot use '..'")
         ELSE LET cleanPath == ReplaceAll(path, "*", "x")
                  cleaned == Clean(cleanPath)
              IN  IF \/ HasPrefix(cleaned, "..")
                     \/ Contains(cleaned, Separator \o "..")
                     \/ HasPrefix(cleaned, Separator)
                  THEN Errorf("path traversal detected: cannot escape working directory")
                  ELSE NilError

validatePackagePath(path) ==
    IF path = "" THEN Errorf("package path cannot be empty")
    ELSE IF Contains(path, "..")
         THEN Errorf("path traversal detected: cannot use '..'")
         ELSE LET cleanPath == ReplaceAll(path, "*", "x")
                  cleaned == Clean(cleanPath)
              IN  IF HasPrefix(cleaned, "..") \/ Contains(cleaned, Separator \o "..")
                  THEN Errorf("path traversal detected: cannot escape working directory")
                  ELSE NilError

(***************************************************************************)
(* net/url: Parse and Hostname, for URLs without user info, query escapes  *)
(* or IPv6 zones.  A parsed URL is a record [err, Scheme, Host].           *)
(***************************************************************************)
Letters == {Char(Lower, i) : i \in 1..Len(Lower)} \cup {Char(Upper, i) : i \in 1..Len(Upper)}

IsLetter(c) == c \in Letters

DigitChars == {Char(Digits, i) : i \in 1..Len(Digits)}

IsDigit(c) == c \in DigitChars

RECURSIVE AllDigits(_)
AllDigits(s) == s = "" \/ (IsDigit(Char(s, 1)) /\ AllDigits(Tail(s)))

\* url.validOptionalPort
validOptionalPort(port) ==
    IF port = "" THEN TRUE
    ELSE IF Char(port, 1) # ":" THEN FALSE
         ELSE AllDigits(Tail(port))

RECURSIVE getSchemeFrom(_, _)
\* url.getScheme scanning from position i: [err, scheme, rest].
getSchemeFrom(rawURL, i) ==
    IF i > Len(rawURL) THEN [err |-> "", scheme |-> "", rest |-> rawURL]
    ELSE LET c == Char(rawURL, i)
         IN  IF IsLetter(c) THEN getSchemeFrom(rawURL, i + 1)
             ELSE IF IsDigit(c) \/ c \in {"+", "-", "."}
                  THEN IF i = 1
                       THEN [err |-> "", scheme |-> "", rest |-> rawURL]
                       ELSE getSchemeFrom(rawURL, i + 1)
                  ELSE IF c = ":"
                       THEN IF i = 1
                            THEN [err |-> "missing protocol scheme",
                                  scheme |-> "", rest |-> ""]
                            ELSE [err |-> "",
                                  scheme |-> SubSeq(rawURL, 1, i - 1),
                                  rest |-> SubSeq(rawURL, i + 1, Len(rawURL))]
                       ELSE [err |-> "", scheme |-> "", rest |-> rawURL]

getScheme(rawURL) == getSchemeFrom(rawURL, 1)

\* Characters url.unescape rejects in a host name.
InvalidHostChar(c) == c \in {" ", "<", ">", "^", "|", "{", "}"}

\* url.parseHost: "" when the host is accepted, else the reason.
parseHost(host) ==
    IF HasPrefix(host, "[")
    THEN LET i == LastIndex(host, "]")
         IN  IF i = 0 THEN "missing ']' in host"
             ELSE IF ~validOptionalPort(SubSeq(host, i + 1, Len(host)))
                  THEN "invalid port " \o "\"" \o SubSeq(host, i + 1, Len(host))
                          \o "\"" \o " after host"
                  ELSE ""
    ELSE LET i == LastIndex(host, ":")
         IN  IF i # 0 /\ ~validOptionalPort(SubSeq(host, i, Len(host)))
             THEN "invalid port " \o "\"" \o SubSeq(host, i, Len(host))
                     \o "\"" \o " after host"
             ELSE IF \E k \in 1..Len(host) : InvalidHostChar(Char(host, k))
                  THEN "invalid character in host name"
                  ELSE ""

IsControl(c) == c \in {"\n", "\t", "\r"}

\* The error url.Parse returns for u.
parseError(u, reason) ==
    [err |-> Errorf("parse " \o "\"" \o u \o "\"" \o ": " \o reason),
     Scheme |-> "", Host |-> ""]

\* url.parse: the authority of "//authority/path" becomes the host.
parseAuthority(u, scheme, authority) ==
    IF parseHost(authority) # ""
    THEN parseError(u, parseHost(authority))
    ELSE [err |-> NilError, Scheme |-> ToLower(scheme), Host |-> authority]

\* The authority of rest, which starts with "//": up to the next "/".
authorityOf(rest) ==
    LET slash == Index(SubSeq(rest, 3, Len(rest)), "/")
    IN  IF slash = 0 THEN SubSeq(rest, 3, Len(rest)) ELSE SubSeq(rest, 3, slash + 1)

\* The first path segment of rest.
firstSegment(rest) ==
    LET firstSlash == Index(rest, "/")
    IN  IF firstSlash = 0 THEN rest ELSE SubSeq(rest, 1, firstSlash - 1)

\* url.parse after the scheme sch and the query are cut off: rest is the part
\* between them.
parseRest(u, sch, rest) ==
    IF ~HasPrefix(rest, "/")
    THEN IF sch.scheme # ""
         THEN [err |-> NilError, Scheme |-> ToLower(sch.scheme), Host |-> ""]
         ELSE IF Contains(firstSegment(rest), ":")
              THEN parseError(u, "first path segment in URL cannot contain colon")
              ELSE [err |-> NilError, Scheme |-> "", Host |-> ""]
    ELSE IF HasPrefix(rest, "//") /\ (sch.scheme # "" \/ ~HasPrefix(rest, "///"))
         THEN parseAuthority(u, sch.scheme, authorityOf(rest))
         ELSE [err |-> NilError, Scheme |-> ToLower(sch.scheme), Host |-> ""]

\* What is left of str before the first sep.
Before(str, sep) == IF Index(str, sep) = 0 THEN str ELSE SubSeq(str, 1, Index(str, sep) - 1)

\* url.parse after getScheme.
parseScheme(u, sch) ==
    IF sch.err # "" THEN parseError(u, sch.err)
    ELSE parseRest(u, sch, Before(sch.rest, "?"))

\* url.parse of a URL without its fragment.
parseURL(u) ==
    IF \E k \in 1..Len(u) : IsControl(Char(u, k))
    THEN parseError(u, "net/url: invalid control character in URL")
    ELSE parseScheme(u, getScheme(u))

\* url.Parse
Parse(rawURL) == parseURL(Before(rawURL, "#"))

\* URL.Hostname: the host without a valid port and without square brackets.
Hostname(hostPort) ==
    LET colon == LastIndex(hostPort, ":")
        host == IF colon # 0 /\ validOptionalPort(SubSeq(hostPort, colon, Len(hostPort)))
                THEN SubSeq(hostPort, 1, colon - 1)
                ELSE hostPort
    IN  IF HasPrefix(host, "[") /\ HasSuffix(host, "]")
        THEN SubSeq(host, 2, Len(host) - 1)
        ELSE host

(***************************************************************************)
(* net: IP addresses are tuples of 4 or 16 bytes; a network is a record    *)
(* [ip, ones] (address bytes and prefix length).                           *)
(***************************************************************************)
Pow2(n) == IF n = 0 THEN 1 ELSE IF n = 1 THEN 2 ELSE IF n = 2 THEN 4
           ELSE IF n = 3 THEN 8 ELSE IF n = 4 THEN 16 ELSE IF n = 5 THEN 32
           ELSE IF n = 6 THEN 64 ELSE IF n = 7 THEN 128 ELSE 256

IPv4(a, b, c, d) == <<a, b, c, d>>

\* The 16-byte form of an address given by its first two and last two bytes.
IPv6(a, b, y, z) == <<a, b, 0, 0, 0, 0, 0, 0, 0, 0, 0, 0, 0, 0, y, z>>

\* The IPv4-mapped IPv6 form ::ffff:a.b.c.d
IPv4Mapped(a, b, c, d) == <<0, 0, 0, 0, 0, 0, 0, 0, 0, 0, 255, 255, a, b, c, d>>

\* IP.To4: the 4-byte form, or <<>> (nil) when ip is not an IPv4 address.
To4(ip) ==
    IF Len(ip) = 4 THEN ip
    ELSE IF Len(ip) = 16 /\ (\A i \in 1..10 : ip[i] = 0) /\ ip[11] = 255 /\ ip[12] = 255
         THEN SubSeq(ip, 13, 16)
         ELSE <<>>

\* The bits of byte i (1-based) that a prefix of length ones covers.
MaskBits(ones, i) ==
    LET left == ones - 8 * (i - 1)
    IN  IF left >= 8 THEN 8 ELSE IF left <= 0 THEN 0 ELSE left

\* IPNet.Contains
NetContains(block, ip) ==
    LET x == IF To4(ip) # <<>> THEN To4(ip) ELSE ip
    IN  /\ Len(x) = Len(block.ip)
        /\ \A i \in 1..Len(x) :
              (x[i] \div Pow2(8 - MaskBits(block.ones, i)))
                 = (block.ip[i] \div Pow2(8 - MaskBits(block.ones, i)))

IsLoopback(ip) ==
    IF To4(ip) # <<>> THEN To4(ip)[1] = 127
    ELSE ip = IPv6(0, 0, 0, 1)

IsLinkLocalUnicast(ip) ==
    IF To4(ip) # <<>> THEN To4(ip)[1] = 169 /\ To4(ip)[2] = 254
    ELSE Len(ip) = 16 /\ ip[1] = 254 /\ (ip[2] \div 64) = 2

IsLinkLocalMulticast(ip) ==
    IF To4(ip) # <<>> THEN To4(ip)[1] = 224 /\ To4(ip)[2] = 0 /\ To4(ip)[3] = 0
    ELSE Len(ip) = 16 /\ ip[1] = 255 /\ (ip[2] % 16) = 2

IsPrivate(ip) ==
    IF To4(ip) # <<>>
    THEN \/ To4(ip)[1] = 10
         \/ To4(ip)[1] = 172 /\ (To4(ip)[2] \div 16) = 1
         \/ To4(ip)[1] = 192 /\ To4(ip)[2] = 168
    ELSE Len(ip) = 16 /\ (ip[1] \div 2) = 126

(***************************************************************************)
(* isPrivateIP                                                             *)
(***************************************************************************)
privateRanges ==
    << [ip |-> IPv4(10, 0, 0, 0), ones |-> 8],
       [ip |-> IPv4(172, 16, 0, 0), ones |-> 12],
       [ip |-> IPv4(192, 168, 0, 0), ones |-> 16],
       [ip |-> IPv4(127, 0, 0, 0), ones |-> 8],
       [ip |-> IPv4(169, 254, 0, 0), ones |-> 16],
       [ip |-> IPv4(0, 0, 0, 0), ones |-> 8] >>

\* fd00:ec2::254 is fd00:0ec2:0:0:0:0:0:0254
cloudMetadata ==
    << [ip |-> IPv4(169, 254, 169, 254), ones |-> 32],
       [ip |-> <<253, 0, 14, 194, 0, 0, 0, 0, 0, 0, 0, 0, 0, 0, 2, 84>>, ones |-> 128] >>

\* isPrivateIP with the listed ranges only, without the classification of the
\* address by the net package.
isPrivateIPListedOnly(ip) ==
    LET allRanges == privateRanges \o cloudMetadata
    IN  \E k \in 1..Len(allRanges) : NetContains(allRanges[k], ip)

isPrivateIP(ip) ==
    LET allRanges == privateRanges \o cloudMetadata
    IN  \/ \E k \in 1..Len(allRanges) : NetContains(allRanges[k], ip)
        \/ IsLoopback(ip) \/ IsLinkLocalUnicast(ip)
        \/ IsLinkLocalMulticast(ip) \/ IsPrivate(ip)

(***************************************************************************)
(* validateSourceURL.  lookup is what net.LookupIP answers for the host at *)
(* the time of the call: [err, ips].                                       *)
(***************************************************************************)
\* validateSourceURL with only the first resolved address checked.
validateSourceURLFirstIP(rawURL, lookup) ==
    IF rawURL = "" THEN Errorf("source URL cannot be empty")
    ELSE LET parsedURL == Parse(rawURL)
             host == Hostname(parsedURL.Host)
             isLocalhost == host = "localhost" \/ host = "127.0.0.1" \/ host = "::1"
         IN  IF ~parsedURL.err.nil
             THEN Errorf("invalid URL: " \o parsedURL.err.msg)
             ELSE IF parsedURL.Scheme # "https" /\ ~isLocalhost
                  THEN Errorf("only HTTPS URLs are allowed (got "
                                 \o parsedURL.Scheme \o ")")
             ELSE IF isLocalhost THEN NilError
             ELSE IF ~lookup.err.nil
                  THEN Errorf("failed to resolve hostname: " \o lookup.err.msg)
             ELSE IF Len(lookup.ips) >= 1 /\ isPrivateIP(lookup.ips[1])
                  THEN Errorf("URLs pointing to private networks are not allowed")
                  ELSE NilError

\* validateSourceURL without the early return for a loopback host.
validateSourceURLNoShortcut(rawURL, lookup) ==
    IF rawURL = "" THEN Errorf("source URL cannot be empty")
    ELSE LET parsedURL == Parse(rawURL)
             host == Hostname(parsedURL.Host)
             isLocalhost == host = "localhost" \/ host = "127.0.0.1" \/ host = "::1"
         IN  IF ~parsedURL.err.nil
             THEN Errorf("invalid URL: " \o parsedURL.err.msg)
             ELSE IF parsedURL.Scheme # "https" /\ ~isLocalhost
                  THEN Errorf("only HTTPS URLs are allowed (got "
                                 \o parsedURL.Scheme \o ")")
             ELSE IF ~lookup.err.nil
                  THEN Errorf("failed to resolve hostname: " \o lookup.err.msg)
             ELSE IF \E k \in 1..Len(lookup.ips) : isPrivateIP(lookup.ips[k])
                  THEN Errorf("URLs pointing to private networks are not allowed")
                  ELSE NilError

\* validateSourceURL without the requirement of HTTPS.
validateSourceURLAnyScheme(rawURL, lookup) ==
    IF rawURL = "" THEN Errorf("source URL cannot be empty")
    ELSE LET parsedURL == Parse(rawURL)
             host == Hostname(parsedURL.Host)
             isLocalhost == host = "localhost" \/ host = "127.0.0.1" \/ host = "::1"
         IN  IF ~parsedURL.err.nil
             THEN Errorf("invalid URL: " \o parsedURL.err.msg)
             ELSE IF isLocalhost THEN NilError
             ELSE IF ~lookup.err.nil
                  THEN Errorf("failed to resolve hostname: " \o lookup.err.msg)
             ELSE IF \E k \in 1..Len(lookup.ips) : isPrivateIP(lookup.ips[k])
                  THEN Errorf("URLs pointing to private networks are not allowed")
                  ELSE NilError

validateSourceURL(rawURL, lookup) ==
    IF rawURL = "" THEN Errorf("source URL cannot be empty")
    ELSE LET parsedURL == Parse(rawURL)
             host == Hostname(parsedURL.Host)
             isLocalhost == host = "localhost" \/ host = "127.0.0.1" \/ host = "::1"
         IN  IF ~parsedURL.err.nil
             THEN Errorf("invalid URL: " \o parsedURL.err.msg)
             ELSE IF parsedURL.Scheme # "https" /\ ~isLocalhost
                  THEN Errorf("only HTTPS URLs are allowed (got "
                                 \o parsedURL.Scheme \o ")")
             ELSE IF isLocalhost THEN NilError
             ELSE IF ~lookup.err.nil
                  THEN Errorf("failed to resolve hostname: " \o lookup.err.msg)
             ELSE IF \E k \in 1..Len(lookup.ips) : isPrivateIP(lookup.ips[k])
                  THEN Errorf("URLs pointing to private networks are not allowed")
                  ELSE NilError

\* Whether validateSourceURL reaches net.LookupIP for rawURL.
resolvesHost(rawURL) ==
    /\ rawURL # ""
    /\ Parse(rawURL).err.nil
    /\ Parse(rawURL).Scheme = "https"
    /\ Hostname(Parse(rawURL).Host) \notin {"localhost", "127.0.0.1", "::1"}

(***************************************************************************)
(* Config, validateConfig                                                  *)
(***************************************************************************)
DefaultSource == "https://api.nuget.org/v3/index.json"

DefaultPackagePath == "*.nupkg"

DefaultTimeout == 300

\* validateConfig with the API key checked last.
validateConfigKeyLast(cfg, lookup) ==
    LET srcErr == validateSourceURL(cfg.Source, lookup)
        pathErr == validatePackagePath(cfg.PackagePath)
    IN  IF ~srcErr.nil
        THEN Errorf("invalid source URL: " \o srcErr.msg)
        ELSE IF ~pathErr.nil
             THEN Errorf("invalid package path: " \o pathErr.msg)
             ELSE IF cfg.Timeout <= 0
                  THEN Errorf("timeout must be a positive integer")
                  ELSE IF cfg.APIKey = ""
                       THEN Errorf("API key is required (set api_key or NUGET_API_KEY environment variable)")
                       ELSE NilError

validateConfig(cfg, lookup) ==
    IF cfg.APIKey = ""
    THEN Errorf("API key is required (set api_key or NUGET_API_KEY environment variable)")
    ELSE LET srcErr == validateSourceURL(cfg.Source, lookup)
             pathErr == validatePackagePath(cfg.PackagePath)
         IN  IF ~srcErr.nil
             THEN Errorf("invalid source URL: " \o srcErr.msg)
             ELSE IF ~pathErr.nil
                  THEN Errorf("invalid package path: " \o pathErr.msg)
                  ELSE IF cfg.Timeout <= 0
                       THEN Errorf("timeout must be a positive integer")
                       ELSE NilError

(***************************************************************************)
(* path/filepath: Glob over a file system given as the set of the paths of *)
(* its regular files (relative to the working directory, or absolute).     *)
(* Character classes are recognised only as far as a '[' that is never     *)
(* closed makes the pattern malformed.                                     *)
(***************************************************************************)
AsciiOrder ==
    " !#$%&'()*+,-./0123456789:;<=>?@ABCDEFGHIJKLMNOPQRSTUVWXYZ[]^_abcdefghijklmnopqrstuvwxyz{|}~"

RECURSIVE StringLess(_, _)
\* a < b in byte order
StringLess(a, b) ==
    IF b = "" THEN FALSE
    ELSE IF a = "" THEN TRUE
    ELSE IF Char(a, 1) = Char(b, 1) THEN StringLess(Tail(a), Tail(b))
    ELSE Index(AsciiOrder, Char(a, 1)) < Index(AsciiOrder, Char(b, 1))

RECURSIVE SortStrings(_)
\* sort.Strings of a set of names
SortStrings(S) ==
    IF S = {} THEN <<>>
    ELSE LET m == CHOOSE x \in S : \A y \in S \ {x} : StringLess(x, y)
         IN  <<m>> \o SortStrings(S \ {m})

hasMeta(path) == Contains(path, "*") \/ Contains(path, "?") \/ Contains(path, "[")

BadPattern(pattern) ==
    \E i \in 1..Len(pattern) :
        /\ Char(pattern, i) = "["
        /\ ~Contains(SubSeq(pattern, i + 1, Len(pattern)), "]")

RECURSIVE Match(_, _)
\* filepath.Match of one path element
Match(pattern, name) ==
    IF pattern = "" THEN name = ""
    ELSE IF Char(pattern, 1) = "*"
         THEN \/ Match(Tail(pattern), name)
              \/ name # "" /\ Char(name, 1) # Separator /\ Match(pattern, Tail(name))
    ELSE IF Char(pattern, 1) = "?"
         THEN name # "" /\ Char(name, 1) # Separator /\ Match(Tail(pattern), Tail(name))
         ELSE name # "" /\ Char(name, 1) = Char(pattern, 1)
                 /\ Match(Tail(pattern), Tail(name))

\* filepath.Split: the directory part (with its trailing separator) and the file part.
SplitDir(path) == SubSeq(path, 1, LastIndex(path, Separator))

SplitFile(path) == SubSeq(path, LastIndex(path, Separator) + 1, Len(path))

cleanGlobPath(path) ==
    IF path = "" THEN "."
    ELSE IF path = Separator THEN path
         ELSE SubSeq(path, 1, Len(path) - 1)

\* The prefix the files below directory dir have.
DirPrefix(dir) ==
    LET cleaned == Clean(dir)
    IN  IF cleaned = "." THEN ""
        ELSE IF cleaned = Separator THEN Separator
             ELSE cleaned \o Separator

\* The files below directory dir.
Below(fs, dir) ==
    LET prefix == DirPrefix(dir)
    IN  {f \in fs : /\ HasPrefix(f, prefix)
                    /\ (prefix = "" => ~HasPrefix(f, Separator))}

IsDir(fs, dir) == DirPrefix(dir) \in {"", Separator} \/ Below(fs, dir) # {}

\* The names in directory dir (files and sub-directories).
Entries(fs, dir) ==
    LET n == Len(DirPrefix(dir))
    IN  {SplitPath(SubSeq(f, n + 1, Len(f)))[1] : f \in Below(fs, dir)}

\* os.Lstat succeeds
Exists(fs, path) == path # "" /\ (Clean(path) \in fs \/ IsDir(fs, path))

RECURSIVE JoinAll(_, _)
JoinAll(dir, names) ==
    IF names = <<>> THEN <<>>
    ELSE <<Clean(dir \o Separator \o Head(names))>> \o JoinAll(dir, Tail(names))

\* filepath.glob: the entries of dir matching pattern, in sorted order, appended to matches.
globDir(fs, dir, pattern, matches) ==
    LET names == Entries(fs, dir)
    IN  IF ~IsDir(fs, dir) THEN matches
        ELSE matches \o JoinAll(dir, SortStrings({n \in names : Match(pattern, n)}))

RECURSIVE globDirs(_, _, _, _)
globDirs(fs, dirs, pattern, matches) ==
    IF dirs = <<>> THEN matches
    ELSE globDirs(fs, Tail(dirs), pattern, globDir(fs, Head(dirs), pattern, matches))

ErrBadPattern == Errorf("syntax error in pattern")

RECURSIVE Glob(_, _)
\* filepath.Glob: [err, matches]
Glob(fs, pattern) ==
    IF BadPattern(pattern) THEN [err |-> ErrBadPattern, matches |-> <<>>]
    ELSE IF ~hasMeta(pattern)
         THEN [err |-> NilError,
               matches |-> IF Exists(fs, pattern) THEN <<pattern>> ELSE <<>>]
    ELSE LET dir == cleanGlobPath(SplitDir(pattern))
             file == SplitFile(pattern)
         IN  IF ~hasMeta(dir)
             THEN [err |-> NilError, matches |-> globDir(fs, dir, file, <<>>)]
             ELSE IF dir = pattern
                  THEN [err |-> ErrBadPattern, matches |-> <<>>]
                  ELSE [err |-> NilError,
                        matches |-> globDirs(fs, Glob(fs, dir).matches, file, <<>>)]

(***************************************************************************)
(* findPackages: [err, packages, globbed]; globbed tells whether the       *)
(* pattern was handed to filepath.Glob.                                    *)
(***************************************************************************)
RECURSIVE FilterNupkg(_)
FilterNupkg(matches) ==
    IF matches = <<>> THEN <<>>
    ELSE (IF HasSuffix(ToLower(Head(matches)), ".nupkg")
          THEN <<Head(matches)>> ELSE <<>>) \o FilterNupkg(Tail(matches))

\* findPackages without the validation of the pattern.
findPackagesUnchecked(pattern, fs) ==
    LET expansion == Glob(fs, pattern)
    IN  IF ~expansion.err.nil
        THEN [err |-> Errorf("invalid glob pattern: " \o expansion.err.msg),
              packages |-> <<>>, globbed |-> TRUE]
        ELSE [err |-> NilError,
              packages |-> FilterNupkg(expansion.matches),
              globbed |-> TRUE]

\* findPackages returning all that filepath.Glob matched.
findPackagesUnfiltered(pattern, fs) ==
    IF ~validatePackagePath(pattern).nil
    THEN [err |-> validatePackagePath(pattern), packages |-> <<>>, globbed |-> FALSE]
    ELSE LET expansion == Glob(fs, pattern)
         IN  IF ~expansion.err.nil
             THEN [err |-> Errorf("invalid glob pattern: " \o expansion.err.msg),
                   packages |-> <<>>, globbed |-> TRUE]
             ELSE [err |-> NilError,
                   packages |-> expansion.matches,
                   globbed |-> TRUE]

findPackages(pattern, fs) ==
    IF ~validatePackagePath(pattern).nil
    THEN [err |-> validatePackagePath(pattern), packages |-> <<>>, globbed |-> FALSE]
    ELSE LET expansion == Glob(fs, pattern)
         IN  IF ~expansion.err.nil
             THEN [err |-> Errorf("invalid glob pattern: " \o expansion.err.msg),
                   packages |-> <<>>, globbed |-> TRUE]
             ELSE [err |-> NilError,
                   packages |-> FilterNupkg(expansion.matches),
                   globbed |-> TRUE]

(***************************************************************************)
(* Raw configuration maps and the SDK's ConfigParser.  A raw map has a     *)
(* value for each of the five keys the plugin reads; a value is absent or  *)
(* a string, a boolean or an integer.  emptyUnset tells whether GetString  *)
(* treats an explicit empty string like an absent key.                     *)
(***************************************************************************)
Absent == [kind |-> "absent", s |-> "", b |-> FALSE, n |-> 0]

StrVal(x) == [kind |-> "string", s |-> x, b |-> FALSE, n |-> 0]

BoolVal(x) == [kind |-> "bool", s |-> "", b |-> x, n |-> 0]

IntVal(x) == [kind |-> "int", s |-> "", b |-> FALSE, n |-> x]

\* os.Getenv on an environment that sets at most NUGET_API_KEY.
Getenv(env, name) == IF name = "NUGET_API_KEY" THEN env ELSE ""

GetString(v, env, envVar, defaultVal, emptyUnset) ==
    IF v.kind = "string" /\ (v.s # "" \/ ~emptyUnset) THEN v.s
    ELSE IF envVar # "" /\ Getenv(env, envVar) # "" THEN Getenv(env, envVar)
         ELSE defaultVal

GetBool(v, defaultVal) == IF v.kind = "bool" THEN v.b ELSE defaultVal

GetInt(v, defaultVal) == IF v.kind = "int" THEN v.n ELSE defaultVal

\* parseConfig with NUGET_API_KEY read before the api_key of the map.
parseConfigEnvFirst(raw, env, emptyUnset) ==
    [APIKey        |-> IF Getenv(env, "NUGET_API_KEY") # ""
                       THEN Getenv(env, "NUGET_API_KEY")
                       ELSE GetString(raw.api_key, env, "", "", emptyUnset),
     Source        |-> GetString(raw.source, env, "", DefaultSource, emptyUnset),
     PackagePath   |-> GetString(raw.package_path, env, "", DefaultPackagePath, emptyUnset),
     SkipDuplicate |-> GetBool(raw.skip_duplicate, FALSE),
     Timeout       |-> GetInt(raw.timeout, DefaultTimeout)]

parseConfig(raw, env, emptyUnset) ==
    [APIKey        |-> GetString(raw.api_key, env, "NUGET_API_KEY", "", emptyUnset),
     Source        |-> GetString(raw.source, env, "", DefaultSource, emptyUnset),
     PackagePath   |-> GetString(raw.package_path, env, "", DefaultPackagePath, emptyUnset),
     SkipDuplicate |-> GetBool(raw.skip_duplicate, FALSE),
     Timeout       |-> GetInt(raw.timeout, DefaultTimeout)]

(***************************************************************************)
(* plugin.ExecuteResponse.  Outputs is the map[string]any: keys is its key *)
(* set, and a field holds the value of its key when the key is present.    *)
(***************************************************************************)
NoOutputs ==
    [keys |-> {}, packages |-> <<>>, source |-> "", skip_duplicate |-> FALSE,
     version |-> "", pushed_packages |-> <<>>, failed_package |-> ""]

NilResponse ==
    [nil |-> TRUE, Success |-> FALSE, Message |-> "", Error |-> "", Outputs |-> NoOutputs]

\* return &plugin.ExecuteResponse{Success: true, Message: ..., Outputs: ...}, nil
SuccessResponse(message, outputs) ==
    [resp |-> [nil |-> FALSE, Success |-> TRUE, Message |-> message, Error |-> "",
               Outputs |-> outputs],
     err |-> NilError]

\* return &plugin.ExecuteResponse{Success: false, Error: ..., Outputs: ...}, nil
FailureResponse(error, outputs) ==
    [resp |-> [nil |-> FALSE, Success |-> FALSE, Message |-> "", Error |-> error,
               Outputs |-> outputs],
     err |-> NilError]

HookPostPublish == "post-publish"

\* Execute, default branch of the switch
unhandledHook(hook) == SuccessResponse("Hook " \o hook \o " not handled", NoOutputs)

\* pushPackage: the returns before the push loop
validationFailed(err) ==
    FailureResponse("configuration validation failed: " \o err.msg, NoOutputs)

\* findFailed returning the error to the caller instead of a response.
findFailedAsError(err) ==
    [resp |-> NilResponse, err |-> Errorf("failed to find packages: " \o err.msg)]

findFailed(err) == FailureResponse("failed to find packages: " \o err.msg, NoOutputs)

noPackagesFound(cfg) ==
    FailureResponse("no packages found matching pattern: " \o cfg.PackagePath, NoOutputs)

\* releaseVersion without the strip of the leading v.
releaseVersionKeep(version) == version

releaseVersion(version) == TrimPrefix(version, "v")

dryRunReport(cfg, packages, version) ==
    SuccessResponse("Would push " \o FormatInt(Len(packages)) \o " package(s) to NuGet",
        [NoOutputs EXCEPT !.keys = {"packages", "source", "skip_duplicate", "version"},
                          !.packages = packages,
                          !.source = cfg.Source,
                          !.skip_duplicate = cfg.SkipDuplicate,
                          !.version = version])

\* pushFailed with the failed package counted among the pushed ones.
pushFailedInclusive(pkg, err, pushedPackages) ==
    FailureResponse("failed to push package " \o pkg \o ": " \o err.msg,
        [NoOutputs EXCEPT !.keys = {"pushed_packages", "failed_package"},
                          !.pushed_packages = Append(pushedPackages, pkg),
                          !.failed_package = pkg])

\* pushPackage: the returns of the push loop
pushFailed(pkg, err, pushedPackages) ==
    FailureResponse("failed to push package " \o pkg \o ": " \o err.msg,
        [NoOutputs EXCEPT !.keys = {"pushed_packages", "failed_package"},
                          !.pushed_packages = pushedPackages,
                          !.failed_package = pkg])

pushSucceeded(cfg, pushedPackages, version) ==
    SuccessResponse("Successfully pushed " \o FormatInt(Len(pushedPackages))
                        \o " package(s) to NuGet",
        [NoOutputs EXCEPT !.keys = {"packages", "source", "version"},
                          !.packages = pushedPackages,
                          !.source = cfg.Source,
                          !.version = version])

(***************************************************************************)
(* executePush: the command line, and the error made of what the executor  *)
(* returned (run = [output, err]).                                         *)
(***************************************************************************)
\* pushArgs with --skip-duplicate appended after --timeout.
pushArgsFlagLast(cfg, packagePath) ==
    <<"nuget", "push", packagePath>>
        \o <<"--api-key", cfg.APIKey>>
        \o <<"--source", cfg.Source>>
        \o <<"--timeout", FormatInt(cfg.Timeout)>>
        \o (IF cfg.SkipDuplicate THEN <<"--skip-duplicate">> ELSE <<>>)

pushArgs(cfg, packagePath) ==
    <<"nuget", "push", packagePath>>
        \o <<"--api-key", cfg.APIKey>>
        \o <<"--source", cfg.Source>>
        \o (IF cfg.SkipDuplicate THEN <<"--skip-duplicate">> ELSE <<>>)
        \o <<"--timeout", FormatInt(cfg.Timeout)>>

pushCommand(cfg, packagePath) == [Name |-> "dotnet", Args |-> pushArgs(cfg, packagePath)]

executePush(run) ==
    IF ~run.err.nil
    THEN Errorf(TrimSpace(run.output) \o ": " \o run.err.msg)
    ELSE NilError

(***************************************************************************)
(* Validate: the standalone entry point, with the SDK's ValidationBuilder  *)
(* (AddError appends a field error, Build is valid iff there is none).     *)
(***************************************************************************)
AddError(errors, field, message) == Append(errors, [Field |-> field, Message |-> message])

Build(errors) == [Valid |-> errors = <<>>, Errors |-> errors]

\* Validate: the check of the source URL, if provided
checkSource(errors, source, lookup) ==
    IF source # "" /\ ~validateSourceURL(source, lookup).nil
    THEN AddError(errors, "source", validateSourceURL(source, lookup).msg)
    ELSE errors

\* Validate: the check of the package path, if provided
checkPackagePath(errors, packagePath) ==
    IF packagePath # "" /\ ~validatePackagePath(packagePath).nil
    THEN AddError(errors, "package_path", validatePackagePath(packagePath).msg)
    ELSE errors

\* Validate: the check of the timeout
checkTimeout(errors, timeout) ==
    IF timeout <= 0
    THEN AddError(errors, "timeout", "must be a positive integer")
    ELSE errors

\* Validate stopping at the first field in error.
ValidateFirstOnly(config, env, lookup, emptyUnset) ==
    IF checkSource(<<>>,
                   GetString(config.source, env, "", DefaultSource, emptyUnset),
                   lookup) # <<>>
    THEN Build(checkSource(<<>>,
                   GetString(config.source, env, "", DefaultSource, emptyUnset),
                   lookup))
    ELSE IF checkPackagePath(<<>>,
                   GetString(config.package_path, env, "", DefaultPackagePath,
                             emptyUnset)) # <<>>
         THEN Build(checkPackagePath(<<>>,
                   GetString(config.package_path, env, "", DefaultPackagePath,
                             emptyUnset)))
         ELSE Build(checkTimeout(<<>>, GetInt(config.timeout, DefaultTimeout)))

Validate(config, env, lookup, emptyUnset) ==
    Build(checkTimeout(
            checkPackagePath(
                checkSource(<<>>,
                    GetString(config.source, env, "", DefaultSource, emptyUnset),
                    lookup),
                GetString(config.package_path, env, "", DefaultPackagePath, emptyUnset)),
            GetInt(config.timeout, DefaultTimeout)))

(***************************************************************************)
(* The inputs of the model.                                                *)
(***************************************************************************)
\* The Execute call of the sequential specification.
Procs == {1}

\* The Execute calls that run on one plugin instance.
Callers == {1, 2}

Hooks == {HookPostPublish, "pre-publish", "on-success"}

RawAPIKeys == {Absent, StrVal(""), StrVal("secret")}

Environments == {"", "env-key"}

RawSources ==
    {Absent, StrVal(""),
     StrVal("https://n.io/v3"),
     StrVal("http://n.io/v3"),
     StrVal("http://localhost:80/"),
     StrVal("ftp://localhost/"),
     StrVal("https://n io/")}

RawPackagePaths ==
    {Absent, StrVal(""), StrVal("b/*.nupkg"), StrVal("*"), StrVal("../*.nupkg"),
     StrVal("["), StrVal("d.txt")}

RawSkipDuplicates == {Absent, BoolVal(TRUE)}

RawTimeouts == {Absent, IntVal(0), IntVal(60)}

RawConfigs ==
    [api_key : RawAPIKeys, source : RawSources, package_path : RawPackagePaths,
     skip_duplicate : RawSkipDuplicates, timeout : RawTimeouts]

\* The requests of the calls that run at the same time: one to a local
\* source, and one to the default source with the API key of the environment.
ConcurrentConfigs ==
    {[api_key |-> StrVal("secret"), source |-> StrVal("http://localhost:80/"),
      package_path |-> StrVal("*"), skip_duplicate |-> Absent, timeout |-> Absent],
     [api_key |-> Absent, source |-> Absent, package_path |-> StrVal("b/*.nupkg"),
      skip_duplicate |-> BoolVal(TRUE), timeout |-> IntVal(60)]}

\* The maps Validate is called with: skip_duplicate, which it does not read,
\* is left out.
ValidateConfigs ==
    {config \in RawConfigs : /\ config.skip_duplicate = Absent
                              /\ config.api_key \in {Absent, StrVal("secret")}}

\* The maps of an Execute call that is one entry among the others: the keys
\* validateSourceURL and findPackages do not read are left out.
EntryConfigs ==
    {config \in RawConfigs : /\ config.skip_duplicate = Absent
                              /\ config.timeout = Absent}

Versions == {"v1.2", "1.2"}

FileUniverse == {"a.nupkg", "B.NUPKG", "c.nupkg", "d.txt", "b/e.nupkg"}

FileSystems == {fs \in SUBSET FileUniverse : Cardinality(fs) <= MaxFiles}

IPUniverse ==
    {IPv4(93, 184, 216, 34), IPv4(10, 0, 0, 5), IPv6(254, 128, 0, 1)}

RECURSIVE IPSeqs(_)
\* The sequences of n distinct addresses
IPSeqs(n) ==
    IF n = 0 THEN {<<>>}
    ELSE {Append(q, ip) : q \in IPSeqs(n - 1), ip \in IPUniverse} \ 
            {q \in {Append(q, ip) : q \in IPSeqs(n - 1), ip \in IPUniverse} :
                \E i, j \in 1..Len(q) : i # j /\ q[i] = q[j]}

NoLookup == [err |-> NilError, ips |-> <<>>]

\* What net.LookupIP may answer: no such host, or one to MaxIPs addresses.
LookupAnswers ==
    {[err |-> Errorf("lookup: no such host"), ips |-> <<>>]}
        \cup {[err |-> NilError, ips |-> q] : q \in UNION {IPSeqs(n) : n \in 1..MaxIPs}}

\* The answers validateSourceURL can see for rawURL.
Lookups(rawURL) == IF resolvesHost(rawURL) THEN LookupAnswers ELSE {NoLookup}

\* What the command executor may return from one Run.
RunResults ==
    {[output |-> "Your package was pushed.\n", err |-> NilError],
     [output |-> " error: Response status code does not indicate success: 409\n",
      err |-> Errorf("exit status 1")],
     [output |-> "", err |-> Errorf("context deadline exceeded")]}

(***************************************************************************)
(* The inputs of the calls of one function by itself.                      *)
(***************************************************************************)
DirectURLs ==
    {"", "localhost", "//localhost", "http://localhost:5000/x", "ftp://127.0.0.1/",
     "https://[::1]:8/", "http://[::1]/", "http://LOCALHOST/", "http://n.io/",
     "https://n.io/v3", "https://localhost.n.io/", "https://n io/",
     "https://localhost:x/"}

\* Addresses outside every range isPrivateIP lists, some next to a range.
PublicIPs ==
    {IPv4(93, 184, 216, 34), IPv4(8, 8, 8, 8), IPv4(11, 0, 0, 1), IPv4(9, 255, 255, 255),
     IPv4(172, 15, 255, 255), IPv4(172, 32, 0, 1), IPv4(192, 169, 0, 1),
     IPv4(192, 167, 255, 255), IPv4(126, 255, 255, 255), IPv4(128, 0, 0, 1),
     IPv4(169, 253, 255, 255), IPv4(169, 255, 0, 1), IPv4(1, 0, 0, 0),
     IPv4(224, 0, 1, 1), IPv6(32, 1, 0, 1), IPv6(254, 192, 0, 1),
     IPv6(254, 127, 0, 1), IPv6(0, 0, 0, 2), IPv6(251, 255, 0, 1),
     IPv6(255, 5, 0, 1), IPv4Mapped(8, 8, 4, 4),
     <<253, 0, 14, 194, 0, 0, 0, 0, 0, 0, 0, 0, 0, 0, 2, 85>>}

\* Addresses of the ranges isPrivateIP lists.
ReservedIPs ==
    {IPv4(10, 0, 0, 5), IPv4(10, 255, 255, 255), IPv4(172, 16, 0, 1),
     IPv4(172, 31, 255, 255), IPv4(192, 168, 1, 1), IPv4(127, 0, 0, 1),
     IPv4(127, 255, 0, 2), IPv4(169, 254, 1, 1), IPv4(169, 254, 169, 254),
     IPv4(0, 1, 2, 3), IPv4(224, 0, 0, 251), IPv4Mapped(10, 0, 0, 5),
     IPv4Mapped(127, 0, 0, 1),
     <<253, 0, 14, 194, 0, 0, 0, 0, 0, 0, 0, 0, 0, 0, 2, 84>>,
     IPv6(0, 0, 0, 1), IPv6(254, 128, 0, 1), IPv6(254, 191, 0, 1),
     IPv6(252, 0, 0, 1), IPv6(255, 2, 0, 1)}

DirectIPs == PublicIPs \cup ReservedIPs

\* The addresses the answers of net.LookupIP are made of in a call of
\* validateSourceURL by itself.
DirectLookupIPs ==
    {IPv4(93, 184, 216, 34), IPv6(32, 1, 0, 1), IPv4(192, 168, 1, 1),
     IPv4(169, 254, 169, 254), IPv6(252, 0, 0, 1)}

RECURSIVE DistinctSeqs(_, _)
\* The sequences of n distinct elements of S
DistinctSeqs(S, n) ==
    IF n = 0 THEN {<<>>}
    ELSE UNION {{Append(q, x) : x \in S \ {q[i] : i \in 1..Len(q)}} :
                    q \in DistinctSeqs(S, n - 1)}

DirectLookupAnswers ==
    {[err |-> Errorf("lookup: no such host"), ips |-> <<>>]}
        \cup {[err |-> NilError, ips |-> q] :
                  q \in UNION {DistinctSeqs(DirectLookupIPs, n) : n \in 1..MaxIPs}}

DirectPatterns ==
    {"", "*.nupkg", "b/*.nupkg", "*", "[", "d.txt", "a.nupkg", "./b/../*.nupkg",
     "..", "../*.nupkg", "a..b/*.nupkg", "b/..", "...", "/o/../*.nupkg",
     "/", "/*.nupkg", "/o/*.nupkg", "//o//f.nupkg", "/./o/*", "/*/*.nupkg",
     "/.", "/o/.f", "/*.*/x"}

DirectFileSystems ==
    FileSystems \cup {{"/o/f.nupkg"}, {"/o/f.nupkg", "/o/g.txt", "/h.nupkg"}}

(***************************************************************************)
(* State                                                                   *)
(***************************************************************************)
VARIABLES
    sdkEmptyUnset,   \* the SDK's GetString treats "" like an absent key
    pc,              \* where each Execute call is
    req,             \* plugin.ExecuteRequest and the environment of each call
    cfg,             \* the parsed *Config of each call
    packages,        \* pushPackage: packages
    idx,             \* pushPackage: position of the range loop (1-based)
    pushedPackages,  \* pushPackage: pushedPackages
    ret,             \* what Execute returned: [resp, err]
    calls,           \* the Run calls of each Execute, in order
    results,         \* what each of those Run calls returned
    valErr,          \* what validateConfig returned, and what the DNS had
                     \* answered: [checked, err, lookup]
    findCalls,       \* number of findPackages calls of each Execute
    findErr,         \* the error findPackages returned
    globCalls,       \* number of filepath.Glob calls of each Execute
    lookupCalls,     \* number of net.LookupIP calls of each Execute
    vreq,            \* the Validate call: [called, config, env, lookup]
    vresp,           \* plugin.ValidateResponse of the Validate call
    vagain,          \* the second Validate call on the same map:
                     \* [called, lookup, resp]
    cmdExecutor,     \* NuGetPlugin.cmdExecutor
    direct           \* a call of one of the plugin's functions by itself

vars == <<sdkEmptyUnset, pc, req, cfg, packages, idx, pushedPackages, ret, calls,
          results, valErr, findCalls, findErr, globCalls, lookupCalls, vreq, vresp,
          vagain, cmdExecutor, direct>>

execVars == <<pc, req, cfg, packages, idx, pushedPackages, ret, calls,
              results, valErr, findCalls, findErr, globCalls, lookupCalls,
              cmdExecutor>>

NoRequest ==
    [Hook |-> "", Config |-> [api_key |-> Absent, source |-> Absent,
                              package_path |-> Absent, skip_duplicate |-> Absent,
                              timeout |-> Absent],
     DryRun |-> FALSE, Version |-> "", env |-> ""]

NoConfig ==
    [APIKey |-> "", Source |-> "", PackagePath |-> "", SkipDuplicate |-> FALSE,
     Timeout |-> 0]

NoReturn == [resp |-> NilResponse, err |-> NilError]

\* No function of the plugin has been called by itself.
NoDirect ==
    [fn |-> "none", url |-> "", lookup |-> NoLookup, resolved |-> FALSE,
     path |-> "", fs |-> {}, ip |-> <<>>,
     err |-> NilError, packages |-> <<>>, globbed |-> FALSE, private |-> FALSE]

\* The values of NuGetPlugin.cmdExecutor: nil, or the executor a test injects.
Executors == {"nil", "mock"}

\* The plugin after construction with the given cmdExecutor, no call made yet.
InitWith(executor) ==
    /\ sdkEmptyUnset \in BOOLEAN
    /\ pc = [p \in Callers |-> "Idle"]
    /\ req = [p \in Callers |-> NoRequest]
    /\ cfg = [p \in Callers |-> NoConfig]
    /\ packages = [p \in Callers |-> <<>>]
    /\ idx = [p \in Callers |-> 0]
    /\ pushedPackages = [p \in Callers |-> <<>>]
    /\ ret = [p \in Callers |-> NoReturn]
    /\ calls = [p \in Callers |-> <<>>]
    /\ results = [p \in Callers |-> <<>>]
    /\ valErr = [p \in Callers |-> [checked |-> FALSE, err |-> NilError,
                                    lookup |-> NoLookup]]
    /\ findCalls = [p \in Callers |-> 0]
    /\ findErr = [p \in Callers |-> NilError]
    /\ globCalls = [p \in Callers |-> 0]
    /\ lookupCalls = [p \in Callers |-> 0]
    /\ vreq = [called |-> FALSE, config |-> NoRequest.Config, env |-> "",
               lookup |-> NoLookup]
    /\ vresp = Build(<<>>)
    /\ vagain = [called |-> FALSE, lookup |-> NoLookup, resp |-> Build(<<>>)]
    /\ cmdExecutor = executor
    /\ direct = NoDirect

\* &NuGetPlugin{}
Init == InitWith("nil")

(***************************************************************************)
(* Execute and pushPackage.  Each operator below is one stretch of the     *)
(* code between two calls to the outside (DNS, file system, executor); it  *)
(* gives the position the call moves to (pc) and what it returns (ret,     *)
(* NoReturn while the call goes on).                                       *)
(***************************************************************************)
\* dispatchHook without the default branch: every hook pushes.
dispatchHookAll(hook) == [pc |-> "ValidatingConfig", ret |-> NoReturn]

\* Execute: the switch on req.Hook
dispatchHook(hook) ==
    IF hook = HookPostPublish
    THEN [pc |-> "ValidatingConfig", ret |-> NoReturn]
    ELSE [pc |-> "Done", ret |-> unhandledHook(hook)]

\* afterValidateConfig without the return on a validation error.
afterValidateConfigIgnore(err) == [pc |-> "LocatingArtifacts", ret |-> NoReturn]

\* pushPackage: after validateConfig returned err
afterValidateConfig(err) ==
    IF ~err.nil
    THEN [pc |-> "Done", ret |-> validationFailed(err)]
    ELSE [pc |-> "LocatingArtifacts", ret |-> NoReturn]

\* afterFindPackages with the dry-run branch ahead of the check for no package.
afterFindPackagesDryFirst(config, dryRun, version, found) ==
    IF ~found.err.nil
    THEN [pc |-> "Done", ret |-> findFailed(found.err)]
    ELSE IF dryRun
         THEN [pc |-> "Done",
               ret |-> dryRunReport(config, found.packages, releaseVersion(version))]
         ELSE IF Len(found.packages) = 0
              THEN [pc |-> "Done", ret |-> noPackagesFound(config)]
              ELSE [pc |-> "PushingSequentially", ret |-> NoReturn]

\* pushPackage: after findPackages returned found, up to the push loop
afterFindPackages(config, dryRun, version, found) ==
    IF ~found.err.nil
    THEN [pc |-> "Done", ret |-> findFailed(found.err)]
    ELSE IF Len(found.packages) = 0
         THEN [pc |-> "Done", ret |-> noPackagesFound(config)]
         ELSE IF dryRun
              THEN [pc |-> "Done",
                    ret |-> dryRunReport(config, found.packages, releaseVersion(version))]
              ELSE [pc |-> "PushingSequentially", ret |-> NoReturn]

\* pushIteration with a failed push tried again.
pushIterationRetry(config, version, pkgs, i, pushed, run) ==
    IF ~executePush(run).nil
    THEN [pc |-> "PushingSequentially", idx |-> i, pushedPackages |-> pushed,
          ret |-> NoReturn]
    ELSE IF i = Len(pkgs)
         THEN [pc |-> "Done", idx |-> i + 1, pushedPackages |-> Append(pushed, pkgs[i]),
               ret |-> pushSucceeded(config, Append(pushed, pkgs[i]),
                                     releaseVersion(version))]
         ELSE [pc |-> "PushingSequentially", idx |-> i + 1,
               pushedPackages |-> Append(pushed, pkgs[i]), ret |-> NoReturn]

\* pushIteration with a failed push skipped instead of returned.
pushIterationNoStop(config, version, pkgs, i, pushed, run) ==
    LET kept == IF executePush(run).nil THEN Append(pushed, pkgs[i]) ELSE pushed
    IN  IF i = Len(pkgs)
        THEN [pc |-> "Done", idx |-> i + 1, pushedPackages |-> kept,
              ret |-> pushSucceeded(config, kept, releaseVersion(version))]
        ELSE [pc |-> "PushingSequentially", idx |-> i + 1, pushedPackages |-> kept,
              ret |-> NoReturn]

\* pushIteration with a loop that ends one package early.
pushIterationShort(config, version, pkgs, i, pushed, run) ==
    IF ~executePush(run).nil
    THEN [pc |-> "Done", idx |-> i, pushedPackages |-> pushed,
          ret |-> pushFailed(pkgs[i], executePush(run), pushed)]
    ELSE IF i >= Len(pkgs) - 1
         THEN [pc |-> "Done", idx |-> i + 1, pushedPackages |-> Append(pushed, pkgs[i]),
               ret |-> pushSucceeded(config, Append(pushed, pkgs[i]),
                                     releaseVersion(version))]
         ELSE [pc |-> "PushingSequentially", idx |-> i + 1,
               pushedPackages |-> Append(pushed, pkgs[i]), ret |-> NoReturn]

\* pushPackage: the iteration of the push loop for packages[i], whose Run
\* returned run, and the return after the last iteration.
pushIteration(config, version, pkgs, i, pushed, run) ==
    IF ~executePush(run).nil
    THEN [pc |-> "Done", idx |-> i, pushedPackages |-> pushed,
          ret |-> pushFailed(pkgs[i], executePush(run), pushed)]
    ELSE IF i = Len(pkgs)
         THEN [pc |-> "Done", idx |-> i + 1, pushedPackages |-> Append(pushed, pkgs[i]),
               ret |-> pushSucceeded(config, Append(pushed, pkgs[i]),
                                     releaseVersion(version))]
         ELSE [pc |-> "PushingSequentially", idx |-> i + 1,
               pushedPackages |-> Append(pushed, pkgs[i]), ret |-> NoReturn]

\* getExecutor: the executor a Run goes to, and cmdExecutor after the call.
getExecutor(field) ==
    [executor |-> IF field # "nil" THEN field ELSE "RealCommandExecutor",
     cmdExecutor |-> field]

\* accumulator with one slice kept in the plugin for all calls.
accumulatorShared(p) == 1

\* The pushedPackages slice call p appends to: the one it made itself.
accumulator(p) == p

\* Execute up to the switch on the hook, for one request: parseConfig, and the
\* default branch.
ExecuteRequest(p, hook, config, env, dryRun, version) ==
    /\ pc[p] = "Idle"
    /\ req' = [req EXCEPT ![p] = [Hook |-> hook, Config |-> config,
                                  DryRun |-> dryRun, Version |-> version,
                                  env |-> env]]
    /\ cfg' = [cfg EXCEPT ![p] = parseConfig(config, env, sdkEmptyUnset)]
    /\ pc' = [pc EXCEPT ![p] = dispatchHook(hook).pc]
    /\ ret' = [ret EXCEPT ![p] = dispatchHook(hook).ret]
    /\ UNCHANGED <<sdkEmptyUnset, packages, idx, pushedPackages, calls, results,
                   valErr, findCalls, findErr, globCalls, lookupCalls, vreq, vresp,
                   vagain, cmdExecutor, direct>>

\* Execute called with any request.
ExecuteCall(p) ==
    /\ pc[p] = "Idle"
    /\ \E hook \in Hooks, config \in RawConfigs, env \in Environments,
          dryRun \in BOOLEAN, version \in Versions :
            ExecuteRequest(p, hook, config, env, dryRun, version)

\* pushPackage: validateConfig (with the answer of the DNS when the source is
\* resolved) and the return on its failure.
ValidateConfigStep(p) ==
    /\ pc[p] = "ValidatingConfig"
    /\ \E lookup \in (IF cfg[p].APIKey = "" THEN {NoLookup} ELSE Lookups(cfg[p].Source)) :
        \E err \in {validateConfig(cfg[p], lookup)} :
            /\ valErr' = [valErr EXCEPT ![p] = [checked |-> TRUE, err |-> err,
                                                lookup |-> lookup]]
            /\ pc' = [pc EXCEPT ![p] = afterValidateConfig(err).pc]
            /\ ret' = [ret EXCEPT ![p] = afterValidateConfig(err).ret]
    /\ lookupCalls' = [lookupCalls EXCEPT ![p] =
                          @ + (IF cfg[p].APIKey # "" /\ resolvesHost(cfg[p].Source)
                               THEN 1 ELSE 0)]
    /\ UNCHANGED <<sdkEmptyUnset, req, cfg, packages, idx, pushedPackages, calls,
                   results, findCalls, findErr, globCalls, vreq, vresp, vagain,
                   cmdExecutor, direct>>

\* pushPackage: findPackages (on the file system of the moment), the returns on
\* its failure and on no package, the dry-run report, the entry of the push loop.
LocateArtifactsStep(p) ==
    /\ pc[p] = "LocatingArtifacts"
    /\ \E fs \in FileSystems :
        \E found \in {findPackages(cfg[p].PackagePath, fs)} :
        \E after \in {afterFindPackages(cfg[p], req[p].DryRun, req[p].Version, found)} :
            /\ packages' = [packages EXCEPT ![p] = found.packages]
            /\ findCalls' = [findCalls EXCEPT ![p] = @ + 1]
            /\ findErr' = [findErr EXCEPT ![p] = found.err]
            /\ globCalls' = [globCalls EXCEPT ![p] = @ + (IF found.globbed THEN 1 ELSE 0)]
            /\ pc' = [pc EXCEPT ![p] = after.pc]
            /\ ret' = [ret EXCEPT ![p] = after.ret]
            /\ idx' = [idx EXCEPT ![p] = IF after.pc = "PushingSequentially" THEN 1 ELSE @]
    /\ UNCHANGED <<sdkEmptyUnset, req, cfg, pushedPackages, calls, results, valErr,
                   lookupCalls, vreq, vresp,
                   vagain, cmdExecutor, direct>>

\* pushPackage: one iteration of the push loop: executePush runs the command
\* for packages[idx] and the executor returns run.
PushStep(p) ==
    /\ pc[p] = "PushingSequentially"
    /\ idx[p] <= Len(packages[p])
    /\ \E run \in RunResults :
        \E after \in {pushIteration(cfg[p], req[p].Version, packages[p], idx[p],
                                     pushedPackages[accumulator(p)], run)} :
            /\ calls' = [calls EXCEPT ![p] =
                            Append(@, pushCommand(cfg[p], packages[p][idx[p]]))]
            /\ results' = [results EXCEPT ![p] = Append(@, run)]
            /\ pc' = [pc EXCEPT ![p] = after.pc]
            /\ idx' = [idx EXCEPT ![p] = after.idx]
            /\ pushedPackages' = [pushedPackages EXCEPT ![accumulator(p)] =
                                      after.pushedPackages]
            /\ ret' = [ret EXCEPT ![p] = after.ret]
    /\ cmdExecutor' = getExecutor(cmdExecutor).cmdExecutor
    /\ UNCHANGED <<sdkEmptyUnset, req, cfg, packages, valErr, findCalls, findErr,
                   globCalls, lookupCalls, vreq, vresp, vagain, direct>>

Next ==
    \E p \in Procs :
        \/ ExecuteCall(p)
        \/ ValidateConfigStep(p)
        \/ LocateArtifactsStep(p)
        \/ PushStep(p)

Spec == Init /\ [][Next]_vars

(***************************************************************************)
(* Execute called by two callers at the same time on one plugin, which has *)
(* its cmdExecutor nil or set; the steps of the two calls interleave.      *)
(***************************************************************************)
ConcurrentCall(p) ==
    /\ pc[p] = "Idle"
    /\ \E config \in ConcurrentConfigs, env \in Environments :
            ExecuteRequest(p, HookPostPublish, config, env, FALSE, "v1.2")

NextConcurrent ==
    \E p \in Callers :
        \/ ConcurrentCall(p)
        \/ ValidateConfigStep(p)
        \/ LocateArtifactsStep(p)
        \/ PushStep(p)

InitConcurrent == \E executor \in Executors : InitWith(executor)

SpecConcurrent == InitConcurrent /\ [][NextConcurrent]_vars

(***************************************************************************)
(* The standalone Validate call                                            *)
(***************************************************************************)
ValidateCall ==
    /\ ~vreq.called
    /\ \E config \in ValidateConfigs, env \in Environments :
        \E lookup \in Lookups(GetString(config.source, env, "", DefaultSource,
                                        sdkEmptyUnset)) :
            /\ vreq' = [called |-> TRUE, config |-> config, env |-> env,
                        lookup |-> lookup]
            /\ vresp' = Validate(config, env, lookup, sdkEmptyUnset)
    /\ UNCHANGED <<sdkEmptyUnset, execVars, vagain, direct>>

\* Validate called once more with the map of the first call, which the first
\* call has not written to; the DNS answers anew.
ValidateAgain ==
    /\ vreq.called
    /\ ~vagain.called
    /\ \E lookup \in Lookups(GetString(vreq.config.source, vreq.env, "", DefaultSource,
                                        sdkEmptyUnset)) :
        vagain' = [called |-> TRUE, lookup |-> lookup,
                   resp |-> Validate(vreq.config, vreq.env, lookup, sdkEmptyUnset)]
    /\ UNCHANGED <<sdkEmptyUnset, execVars, vreq, vresp, direct>>

NextValidate == ValidateCall \/ ValidateAgain

SpecValidate == Init /\ [][NextValidate]_vars

(***************************************************************************)
(* A call of validateSourceURL, isPrivateIP, validatePackagePath or        *)
(* findPackages by itself, as the tests make them.                         *)
(***************************************************************************)
ValidateSourceURLCall ==
    /\ direct.fn = "none"
    /\ \E rawURL \in DirectURLs, lookup \in DirectLookupAnswers :
        direct' = [NoDirect EXCEPT !.fn = "validateSourceURL",
                                   !.url = rawURL,
                                   !.lookup = lookup,
                                   !.resolved = resolvesHost(rawURL),
                                   !.err = validateSourceURL(rawURL, lookup)]
    /\ UNCHANGED <<sdkEmptyUnset, execVars, vreq, vresp, vagain>>

IsPrivateIPCall ==
    /\ direct.fn = "none"
    /\ \E ip \in DirectIPs :
        direct' = [NoDirect EXCEPT !.fn = "isPrivateIP",
                                   !.ip = ip,
                                   !.private = isPrivateIP(ip)]
    /\ UNCHANGED <<sdkEmptyUnset, execVars, vreq, vresp, vagain>>

ValidatePackagePathCall ==
    /\ direct.fn = "none"
    /\ \E path \in DirectPatterns :
        direct' = [NoDirect EXCEPT !.fn = "validatePackagePath",
                                   !.path = path,
                                   !.err = validatePackagePath(path)]
    /\ UNCHANGED <<sdkEmptyUnset, execVars, vreq, vresp, vagain>>

FindPackagesCall ==
    /\ direct.fn = "none"
    /\ \E pattern \in DirectPatterns, fs \in DirectFileSystems :
        \E found \in {findPackages(pattern, fs)} :
            direct' = [NoDirect EXCEPT !.fn = "findPackages",
                                       !.path = pattern,
                                       !.fs = fs,
                                       !.err = found.err,
                                       !.packages = found.packages,
                                       !.globbed = found.globbed]
    /\ UNCHANGED <<sdkEmptyUnset, execVars, vreq, vresp, vagain>>

NextDirect ==
    \/ ValidateSourceURLCall
    \/ IsPrivateIPCall
    \/ ValidatePackagePathCall
    \/ FindPackagesCall

SpecDirect == Init /\ [][NextDirect]_vars

(***************************************************************************)
(* The plugin entered once, through any of its functions: Execute,         *)
(* Validate, or one of the functions above by itself.                      *)
(***************************************************************************)
Fresh ==
    /\ \A p \in Callers : pc[p] = "Idle"
    /\ ~vreq.called
    /\ direct.fn = "none"

ExecuteEntry(p) ==
    /\ Fresh
    /\ \E hook \in Hooks, config \in EntryConfigs, env \in Environments,
          dryRun \in BOOLEAN :
            ExecuteRequest(p, hook, config, env, dryRun, "v1.2")

ValidateEntry == Fresh /\ ValidateCall

SourceURLEntry == Fresh /\ ValidateSourceURLCall

PrivateIPEntry == Fresh /\ IsPrivateIPCall

PackagePathEntry == Fresh /\ ValidatePackagePathCall

FindPackagesEntry == Fresh /\ FindPackagesCall

NextEntry ==
    \/ \E p \in Procs :
            \/ ExecuteEntry(p)
            \/ ValidateConfigStep(p)
            \/ LocateArtifactsStep(p)
            \/ PushStep(p)
    \/ ValidateEntry
    \/ SourceURLEntry
    \/ PrivateIPEntry
    \/ PackagePathEntry
    \/ FindPackagesEntry

SpecEntry == Init /\ [][NextEntry]_vars

(***************************************************************************)
(* Properties                                                              *)
(***************************************************************************)
\* An Execute call that returned.
Returned(p) == pc[p] = "Done"

\* An Execute call for the post-publish hook that got past validateConfig.
Located(p) == findCalls[p] > 0 /\ findErr[p].nil

\* The k-th Run of call p is the first that returned an error.
FirstFailure(p, k) ==
    /\ k \in 1..Len(results[p])
    /\ ~results[p][k].err.nil
    /\ \A j \in 1..(k - 1) : results[p][j].err.nil

\* The decimal form of a number below ten.
Decimal(n) == Char(Digits, n + 1)

\* C1: in one post-publish Execute, a Run that returned an error is the last
\* Run of that Execute: when the Run for the k-th located package fails, the
\* Execute has made exactly k Runs, the k-th for that package, and has
\* returned.
C1_NoRunAfterFailure ==
    \A p \in Procs :
        /\ Len(results[p]) = Len(calls[p])
        /\ \A k \in 1..Len(results[p]) :
              ~results[p][k].err.nil =>
                  /\ Len(calls[p]) = k
                  /\ calls[p][k].Name = "dotnet"
                  /\ calls[p][k].Args[3] = packages[p][k]
                  /\ Returned(p)

C1_Witness ==
    \E p \in Procs :
        /\ Returned(p)
        /\ Len(packages[p]) = 3
        /\ Len(calls[p]) = 2
        /\ results[p][1].err.nil
        /\ ~results[p][2].err.nil

\* C2: when the Run for the k-th located package is the first to fail, the
\* response has Success false, pushed_packages is the first k-1 located
\* packages in order and failed_package is the k-th; these are the only outputs.
C2_PartialProgress ==
    \A p \in Procs :
        \A k \in 1..Len(results[p]) :
            FirstFailure(p, k) =>
                /\ ~ret[p].resp.nil
                /\ ret[p].resp.Success = FALSE
                /\ ret[p].resp.Outputs.keys = {"pushed_packages", "failed_package"}
                /\ ret[p].resp.Outputs.pushed_packages = SubSeq(packages[p], 1, k - 1)
                /\ ret[p].resp.Outputs.failed_package = packages[p][k]

C2_Witness ==
    \E p \in Procs :
        /\ Returned(p)
        /\ Len(packages[p]) = 3
        /\ FirstFailure(p, 3)
        /\ Len(ret[p].resp.Outputs.pushed_packages) = 2

\* C3: when validateConfig rejects the configuration (empty API key, rejected
\* source, rejected package path or timeout <= 0), Execute has returned a
\* failure whose error is "configuration validation failed: " and the message
\* of the validation error, and it has called neither findPackages, nor
\* filepath.Glob, nor the executor; dry-run or not.
C3_ValidationFailureStops ==
    \A p \in Procs :
        /\ valErr[p].checked /\ ( \/ cfg[p].APIKey = ""
                                  \/ cfg[p].Source = ""
                                  \/ ~validatePackagePath(cfg[p].PackagePath).nil
                                  \/ cfg[p].Timeout <= 0 )
              => ~valErr[p].err.nil
        /\ valErr[p].checked /\ ~valErr[p].err.nil =>
              /\ Returned(p)
              /\ ~ret[p].resp.nil /\ ret[p].err.nil
              /\ ret[p].resp.Success = FALSE
              /\ ret[p].resp.Error = "configuration validation failed: " \o valErr[p].err.msg
              /\ valErr[p].err.msg # ""
              /\ findCalls[p] = 0
              /\ globCalls[p] = 0
              /\ calls[p] = <<>>

C3_Witness ==
    \E p \in Procs :
        /\ Returned(p)
        /\ req[p].DryRun
        /\ cfg[p].APIKey # ""
        /\ cfg[p].Timeout <= 0
        /\ valErr[p].checked
        /\ Contains(ret[p].resp.Error, "positive integer")

\* C4: a dry-run Execute with a valid configuration that located N >= 1
\* packages makes no Run and returns Success with the message
\* "Would push N package(s) to NuGet" and the outputs packages, source,
\* skip_duplicate and version (the release version without its leading v).
C4_DryRun ==
    \A p \in Procs :
        Returned(p) /\ req[p].DryRun /\ Located(p) /\ Len(packages[p]) >= 1 =>
            /\ calls[p] = <<>>
            /\ ~ret[p].resp.nil
            /\ ret[p].resp.Success = TRUE
            /\ ret[p].resp.Message =
                  "Would push " \o Decimal(Len(packages[p])) \o " package(s) to NuGet"
            /\ ret[p].resp.Outputs.keys = {"packages", "source", "skip_duplicate", "version"}
            /\ ret[p].resp.Outputs.packages = packages[p]
            /\ ret[p].resp.Outputs.source = cfg[p].Source
            /\ ret[p].resp.Outputs.skip_duplicate = cfg[p].SkipDuplicate
            /\ ret[p].resp.Outputs.version =
                  (IF Char(req[p].Version, 1) = "v" THEN Tail(req[p].Version)
                   ELSE req[p].Version)

C4_Witness ==
    \E p \in Procs :
        /\ Returned(p) /\ req[p].DryRun /\ Located(p)
        /\ Len(packages[p]) = 2
        /\ req[p].Version = "v1.2"
        /\ ret[p].resp.Outputs.version = "1.2"
        /\ ret[p].resp.Outputs.skip_duplicate

\* C5: an Execute that is not a dry run, located N >= 1 packages and whose
\* Runs all succeeded has made exactly N Runs and returns Success with a message
\* containing "N package(s)" and the output packages equal to the located
\* packages in their order.
C5_AllPushed ==
    \A p \in Procs :
        /\ Returned(p) /\ ~req[p].DryRun /\ Located(p) /\ Len(packages[p]) >= 1
        /\ \A k \in 1..Len(results[p]) : results[p][k].err.nil
        =>  /\ Len(calls[p]) = Len(packages[p])
            /\ \A k \in 1..Len(calls[p]) : calls[p][k].Args[3] = packages[p][k]
            /\ ~ret[p].resp.nil
            /\ ret[p].resp.Success = TRUE
            /\ Contains(ret[p].resp.Message, Decimal(Len(packages[p])) \o " package(s)")
            /\ "packages" \in ret[p].resp.Outputs.keys
            /\ ret[p].resp.Outputs.packages = packages[p]

C5_Witness ==
    \E p \in Procs :
        /\ Returned(p) /\ ~req[p].DryRun
        /\ Len(packages[p]) = 3
        /\ Len(calls[p]) = 3
        /\ ret[p].resp.Success

\* C6: when the configuration is valid and findPackages returns no package
\* (and no error), Execute returns a failure whose error contains
\* "no packages found matching pattern: " and the pattern, without any Run;
\* also when the dry-run flag is set.
C6_NoPackages ==
    \A p \in Procs :
        Located(p) /\ Len(packages[p]) = 0 =>
            /\ Returned(p)
            /\ ~ret[p].resp.nil
            /\ ret[p].resp.Success = FALSE
            /\ Contains(ret[p].resp.Error,
                        "no packages found matching pattern: " \o cfg[p].PackagePath)
            /\ calls[p] = <<>>

C6_Witness ==
    \E p \in Procs :
        /\ Located(p) /\ Len(packages[p]) = 0
        /\ req[p].DryRun
        /\ globCalls[p] = 1
        /\ Returned(p)

\* C7: a post-publish Execute whose configuration map has no API key (absent,
\* or not a non-empty string) while NUGET_API_KEY is not set fails with an
\* error containing "API key is required", whatever the other fields are, and
\* makes no Run.
C7_APIKeyRequired ==
    \A p \in Procs :
        /\ req[p].Hook = HookPostPublish
        /\ req[p].env = ""
        /\ (req[p].Config.api_key.kind # "string" \/ req[p].Config.api_key.s = "")
        /\ pc[p] \notin {"Idle", "ValidatingConfig"}
        =>  /\ Returned(p)
            /\ ~ret[p].resp.nil
            /\ ret[p].resp.Success = FALSE
            /\ Contains(ret[p].resp.Error, "API key is required")
            /\ calls[p] = <<>>

C7_Witness ==
    \E p \in Procs :
        /\ Returned(p)
        /\ req[p].Hook = HookPostPublish
        /\ req[p].env = ""
        /\ req[p].Config.api_key.kind = "absent"
        /\ req[p].Config.source = StrVal("http://n.io/v3")
        /\ req[p].Config.package_path = StrVal("../*.nupkg")
        /\ req[p].Config.timeout = IntVal(0)

\* C8: for a hook other than post-publish, Execute returns Success with the
\* message "Hook <hook> not handled" and has run no validation, no DNS lookup,
\* no findPackages, no glob expansion and no Run, whatever the configuration.
C8_UnhandledHook ==
    \A p \in Procs :
        pc[p] # "Idle" /\ req[p].Hook # HookPostPublish =>
            /\ Returned(p)
            /\ ~ret[p].resp.nil /\ ret[p].err.nil
            /\ ret[p].resp.Success = TRUE
            /\ ret[p].resp.Message = "Hook " \o req[p].Hook \o " not handled"
            /\ ret[p].resp.Error = ""
            /\ ~valErr[p].checked
            /\ lookupCalls[p] = 0
            /\ findCalls[p] = 0
            /\ globCalls[p] = 0
            /\ calls[p] = <<>>

C8_Witness ==
    \E p \in Procs :
        /\ Returned(p)
        /\ req[p].Hook = "pre-publish"
        /\ cfg[p].APIKey = ""
        /\ cfg[p].Timeout <= 0

\* C9: an Execute call has no outcome before it returns and exactly one when it
\* has returned: a non-nil response and a nil error, with a non-empty message
\* and an empty error text when Success, a non-empty error text and an empty
\* message otherwise; a call that has not returned can always go on, and a
\* returned outcome never changes.
C9_OneOutcome ==
    /\ [](\A p \in Procs :
            /\ ~Returned(p) => ret[p] = NoReturn
            /\ pc[p] = "PushingSequentially" => idx[p] \in 1..Len(packages[p])
            /\ Returned(p) =>
                  /\ ~ret[p].resp.nil
                  /\ ret[p].err.nil
                  /\ ret[p].resp.Success => ret[p].resp.Message # "" /\ ret[p].resp.Error = ""
                  /\ ~ret[p].resp.Success => ret[p].resp.Error # "" /\ ret[p].resp.Message = "")
    /\ [][\A p \in Procs : Returned(p) => Returned(p)' /\ ret'[p] = ret[p]]_vars

C9_Witness ==
    \E p \in Procs :
        /\ Returned(p)
        /\ findCalls[p] = 1
        /\ ~findErr[p].nil
        /\ Contains(ret[p].resp.Error, "syntax error in pattern")

\* The fields Validate finds in error: a field whose resolved value is given
\* (not empty) and rejected by its validator, and a timeout that is not positive.
ViolatedFields ==
    LET source == GetString(vreq.config.source, vreq.env, "", DefaultSource, sdkEmptyUnset)
        packagePath == GetString(vreq.config.package_path, vreq.env, "",
                                 DefaultPackagePath, sdkEmptyUnset)
        timeout == GetInt(vreq.config.timeout, DefaultTimeout)
    IN  (IF source # "" /\ ~validateSourceURL(source, vreq.lookup).nil
         THEN <<"source">> ELSE <<>>)
        \o (IF packagePath # "" /\ ~validatePackagePath(packagePath).nil
            THEN <<"package_path">> ELSE <<>>)
        \o (IF timeout <= 0 THEN <<"timeout">> ELSE <<>>)

Accepted(p) == valErr[p].checked /\ valErr[p].err.nil

\* The host of a source URL is localhost, 127.0.0.1 or ::1.
LoopbackHost(rawURL) ==
    Hostname(Parse(rawURL).Host) \in {"localhost", "127.0.0.1", "::1"}

\* C11 as stated: a configuration validateConfig accepts, and so every
\* configuration a Run is made under, has a non-empty API key, a source that is
\* HTTPS or is HTTP with a loopback host, a package path without "..", and a
\* timeout above zero.
C11_HTTPOnlyForLoopback ==
    \A p \in Procs :
        /\ calls[p] # <<>> => Accepted(p)
        /\ Accepted(p) =>
              /\ cfg[p].APIKey # ""
              /\ Parse(cfg[p].Source).err.nil
              /\ \/ Parse(cfg[p].Source).Scheme = "https"
                 \/ Parse(cfg[p].Source).Scheme = "http" /\ LoopbackHost(cfg[p].Source)
              /\ ~Contains(cfg[p].PackagePath, "..")
              /\ cfg[p].Timeout > 0

\* C11, amended: a configuration validateConfig accepts, and so every
\* configuration a Run is made under, has a non-empty API key, a parseable
\* source that is HTTPS or has a loopback host (with any scheme), a package
\* path without "..", and a timeout above zero.
C11_AcceptedConfiguration ==
    \A p \in Procs :
        /\ calls[p] # <<>> => Accepted(p)
        /\ Accepted(p) =>
              /\ cfg[p].APIKey # ""
              /\ Parse(cfg[p].Source).err.nil
              /\ \/ Parse(cfg[p].Source).Scheme = "https"
                 \/ LoopbackHost(cfg[p].Source)
              /\ ~Contains(cfg[p].PackagePath, "..")
              /\ cfg[p].Timeout > 0

C11_Witness ==
    \E p \in Procs :
        /\ Accepted(p)
        /\ Len(calls[p]) = 2
        /\ cfg[p].Source = "http://localhost:80/"
        /\ cfg[p].Timeout = 60
        /\ req[p].Config.api_key = Absent

\* C12: validateSourceURL accepts every parseable URL whose hostname is exactly
\* localhost, 127.0.0.1 or ::1, whatever its scheme, without asking the DNS:
\* whatever the DNS would have answered, and also when it would have failed or
\* answered a private address.
C12_LoopbackAccepted ==
    /\ direct.fn = "validateSourceURL"
    /\ Parse(direct.url).err.nil
    /\ LoopbackHost(direct.url)
    =>  /\ direct.err.nil
        /\ ~direct.resolved

C12_Witness ==
    /\ direct.fn = "validateSourceURL"
    /\ direct.url = "ftp://127.0.0.1/"
    /\ ~direct.lookup.err.nil
    /\ direct.err.nil

\* The string has two dots in a row somewhere.
HasDotDot(str) == \E i \in 1..(Len(str) - 1) : SubSeq(str, i, i + 1) = ".."

\* C13: validatePackagePath rejects every pattern with ".." in it, with a
\* message containing "traversal"; findPackages called by itself with such a
\* pattern returns that error without calling filepath.Glob; an Execute has
\* called filepath.Glob only with a pattern without ".."; Validate reports
\* such a pattern as an error of package_path and calls filepath.Glob never.
C13_NoGlobOnTraversal ==
    /\ direct.fn = "validatePackagePath" /\ HasDotDot(direct.path) =>
          /\ ~direct.err.nil
          /\ Contains(direct.err.msg, "traversal")
    /\ direct.fn = "findPackages" /\ HasDotDot(direct.path) =>
          /\ ~direct.globbed
          /\ ~direct.err.nil
          /\ Contains(direct.err.msg, "traversal")
          /\ direct.packages = <<>>
    /\ \A p \in Procs :
          /\ globCalls[p] <= findCalls[p]
          /\ findCalls[p] > 0 => ~HasDotDot(cfg[p].PackagePath)
          /\ valErr[p].checked /\ cfg[p].APIKey # "" /\ valErr[p].err.nil
                => ~HasDotDot(cfg[p].PackagePath)
    /\ vreq.called =>
          /\ \A p \in Callers : globCalls[p] = 0
          /\ ~direct.globbed
          /\ vreq.config.package_path.kind = "string"
                /\ HasDotDot(vreq.config.package_path.s)
                => \E i \in 1..Len(vresp.Errors) :
                      /\ vresp.Errors[i].Field = "package_path"
                      /\ Contains(vresp.Errors[i].Message, "traversal")

C13_Witness ==
    /\ direct.fn = "findPackages"
    /\ direct.path = "a..b/*.nupkg"
    /\ direct.fs # {}
    /\ ~direct.globbed
    /\ Contains(direct.err.msg, "traversal")

\* C14: validatePackagePath accepts every non-empty absolute pattern without
\* "..", with wildcards or without; findPackages called with such a pattern
\* hands it to filepath.Glob.
C14_AbsoluteAccepted ==
    /\ direct.fn \in {"validatePackagePath", "findPackages"}
    /\ Len(direct.path) >= 1
    /\ SubSeq(direct.path, 1, 1) = "/"
    /\ ~HasDotDot(direct.path)
    =>  /\ direct.fn = "validatePackagePath" => direct.err.nil
        /\ direct.fn = "findPackages" =>
              /\ direct.globbed
              /\ ~Contains(direct.err.msg, "traversal")

C14_Witness ==
    /\ direct.fn = "validatePackagePath"
    /\ direct.path = "/*/*.nupkg"
    /\ direct.err.nil

\* What a string field resolves to, given the value of its key in the map and
\* what stands in for an absent key: a non-empty string of the map is
\* returned as it is; an empty string of the map is returned as it is or
\* taken for absent (the SDK's parser decides).
ResolvesTo(resolved, value, fallback) ==
    IF value.kind = "string" /\ value.s # "" THEN resolved = value.s
    ELSE IF value.kind = "string" THEN resolved \in {"", fallback}
    ELSE resolved = fallback

RECURSIVE DecimalOf(_)
\* The decimal form of a natural number.
DecimalOf(n) ==
    IF n < 10 THEN Decimal(n) ELSE DecimalOf(n \div 10) \o Decimal(n % 10)

\* C16: the k-th Run of an Execute is the command dotnet with the arguments
\* nuget, push, the k-th located package, --api-key, the API key, --source,
\* the source, then --skip-duplicate exactly when SkipDuplicate is set, then
\* --timeout and the timeout in decimal; two Runs of one Execute differ in the
\* package only.
C16_CommandArguments ==
    \A p \in Procs :
        \A k \in 1..Len(calls[p]) :
            /\ calls[p][k].Name = "dotnet"
            /\ Len(calls[p][k].Args) = (IF cfg[p].SkipDuplicate THEN 10 ELSE 9)
            /\ SubSeq(calls[p][k].Args, 1, 7) =
                  <<"nuget", "push", packages[p][k], "--api-key", cfg[p].APIKey,
                    "--source", cfg[p].Source>>
            /\ cfg[p].SkipDuplicate => calls[p][k].Args[8] = "--skip-duplicate"
            /\ SubSeq(calls[p][k].Args, Len(calls[p][k].Args) - 1,
                      Len(calls[p][k].Args)) = <<"--timeout", DecimalOf(cfg[p].Timeout)>>
            /\ \A j \in 1..Len(calls[p]) :
                  [calls[p][j].Args EXCEPT ![3] = ""] = [calls[p][k].Args EXCEPT ![3] = ""]

C16_Witness ==
    \E p \in Procs :
        /\ Len(calls[p]) = 3
        /\ cfg[p].SkipDuplicate
        /\ cfg[p].Timeout = 60
        /\ cfg[p].APIKey = "env-key"
        /\ calls[p][3].Args[10] = "60"
        /\ calls[p][2].Args[3] = "a.nupkg"

\* An address of a private, loopback or link-local network, or of a cloud
\* metadata service: 0/8, 10/8, 127/8, 169.254/16, 172.16/12, 192.168/16 and
\* 224.0.0/24 (also as IPv4-mapped IPv6 addresses); ::1, fe80::/10, fc00::/7,
\* ff.2::/16 and fd00:ec2::254.
ForbiddenAddress(ip) ==
    LET mapped == /\ Len(ip) = 16
                  /\ SubSeq(ip, 1, 12) = <<0, 0, 0, 0, 0, 0, 0, 0, 0, 0, 255, 255>>
        v4 == IF Len(ip) = 4 THEN ip ELSE IF mapped THEN SubSeq(ip, 13, 16) ELSE <<>>
    IN  IF v4 # <<>>
        THEN \/ v4[1] \in {0, 10, 127}
             \/ v4[1] = 172 /\ v4[2] \in 16..31
             \/ v4[1] = 192 /\ v4[2] = 168
             \/ v4[1] = 169 /\ v4[2] = 254
             \/ v4[1] = 224 /\ v4[2] = 0 /\ v4[3] = 0
        ELSE \/ ip = <<0, 0, 0, 0, 0, 0, 0, 0, 0, 0, 0, 0, 0, 0, 0, 1>>
             \/ ip = <<253, 0, 14, 194, 0, 0, 0, 0, 0, 0, 0, 0, 0, 0, 2, 84>>
             \/ ip[1] = 254 /\ ip[2] \in 128..191
             \/ ip[1] \in {252, 253}
             \/ ip[1] = 255 /\ ip[2] % 16 = 2

\* How a resolution ended: in an error, with a forbidden address among the
\* resolved ones, or with public addresses only.
LookupOutcome(lookup) ==
    IF ~lookup.err.nil THEN "failed"
    ELSE IF \E k \in 1..Len(lookup.ips) : ForbiddenAddress(lookup.ips[k])
         THEN "forbidden"
         ELSE "public"

\* The source the Validate call resolved from its map.
ValidatedSource ==
    GetString(vreq.config.source, vreq.env, "", DefaultSource, sdkEmptyUnset)

C18_SequentialInOrder ==
    /\ [](\A p \in Procs :
            /\ Len(results[p]) = Len(calls[p])
            /\ Len(calls[p]) <= Len(packages[p])
            /\ \A k \in 1..Len(calls[p]) :
                  /\ calls[p][k].Args[3] = packages[p][k]
                  /\ k < Len(calls[p]) => results[p][k].err.nil
                  /\ \A j \in 1..Len(calls[p]) :
                        j # k => calls[p][j].Args[3] # calls[p][k].Args[3])
    /\ [][\A p \in Procs :
            \/ calls'[p] = calls[p]
            \/ /\ Len(calls'[p]) = Len(calls[p]) + 1
               /\ SubSeq(calls'[p], 1, Len(calls[p])) = calls[p]
               /\ SubSeq(results'[p], 1, Len(results[p])) = results[p]
               /\ \A k \in 1..Len(results[p]) : results[p][k].err.nil]_vars

C18_Witness ==
    \E p \in Procs :
        /\ Returned(p)
        /\ Len(calls[p]) = 3
        /\ calls[p][1].Args[3] = "B.NUPKG"
        /\ calls[p][3].Args[3] = "c.nupkg"
        /\ ~results[p][3].err.nil

RECURSIVE PushAlone(_, _, _, _, _, _)
\* The push loop run from package i on with nothing else running, the Runs
\* returning runs in order: where it stands when runs is used up.
PushAlone(config, version, pkgs, i, pushed, runs) ==
    IF i > Len(runs)
    THEN [pc |-> "PushingSequentially", idx |-> i, pushedPackages |-> pushed,
          ret |-> NoReturn]
    ELSE LET after == pushIteration(config, version, pkgs, i, pushed, runs[i])
         IN  IF after.pc = "Done" THEN after
             ELSE PushAlone(config, version, pkgs, after.idx, after.pushedPackages, runs)

\* Where call p stands, and with which pushed packages and outcome, had it
\* run with nothing else running: on its request, with the DNS answer and the
\* located packages it got, and with the results its Runs returned.
Alone(p) ==
    LET config == parseConfig(req[p].Config, req[p].env, sdkEmptyUnset)
        hooked == dispatchHook(req[p].Hook)
        validated == afterValidateConfig(validateConfig(config, valErr[p].lookup))
        found == afterFindPackages(config, req[p].DryRun, req[p].Version,
                                   [err |-> findErr[p], packages |-> packages[p]])
        stopped(at) == [pc |-> at.pc, idx |-> 0, pushedPackages |-> <<>>, ret |-> at.ret]
    IN  IF hooked.pc = "Done" \/ ~valErr[p].checked THEN stopped(hooked)
        ELSE IF validated.pc = "Done" \/ findCalls[p] = 0 THEN stopped(validated)
        ELSE IF found.pc = "Done" THEN stopped(found)
        ELSE PushAlone(config, req[p].Version, packages[p], 1, <<>>, results[p])

\* The part of the state that belongs to call p.
Locals(p) ==
    <<pc[p], req[p], cfg[p], packages[p], idx[p], pushedPackages[p], ret[p],
      calls[p], results[p], valErr[p], findCalls[p], findErr[p], globCalls[p],
      lookupCalls[p]>>

\* C19: when two Execute calls run at the same time on one plugin, in every
\* interleaving each call stands where it would stand had it run alone with
\* the same answers of the DNS, the file system and the executor: same
\* position, same pushed packages so far, same outcome, its Config parsed from
\* its own request; a step of one call changes nothing of the other; and
\* cmdExecutor is never written.
C19_CallsIndependent ==
    /\ [](\A p \in Callers :
            pc[p] # "Idle" =>
                /\ cfg[p] = parseConfig(req[p].Config, req[p].env, sdkEmptyUnset)
                /\ pc[p] = Alone(p).pc
                /\ pushedPackages[p] = Alone(p).pushedPackages
                /\ ret[p] = Alone(p).ret
                /\ "pushed_packages" \in ret[p].resp.Outputs.keys =>
                      ret[p].resp.Outputs.pushed_packages
                          = SubSeq(packages[p], 1, Len(results[p]) - 1)
                /\ "packages" \in ret[p].resp.Outputs.keys =>
                      ret[p].resp.Outputs.packages = packages[p])
    /\ [][/\ cmdExecutor' = cmdExecutor
           /\ \E p \in Callers :
                 \A q \in Callers \ {p} : Locals(q)' = Locals(q)]_vars

C19_Witness ==
    /\ pc[1] = "PushingSequentially"
    /\ pc[2] = "PushingSequentially"
    /\ Len(pushedPackages[1]) = 2
    /\ Len(pushedPackages[2]) = 1
    /\ Len(packages[2]) = 2
    /\ req[1].env # req[2].env
    /\ cmdExecutor = "nil"

\* A source validateSourceURL resolves: parseable, HTTPS, host not loopback.
ResolvedSource(rawURL) ==
    /\ Parse(rawURL).err.nil
    /\ Parse(rawURL).Scheme = "https"
    /\ ~LoopbackHost(rawURL)

\* C20: for an HTTPS URL with a host that is not loopback, validateSourceURL
\* asks the DNS and accepts exactly when the resolution succeeds and none of
\* the resolved addresses is forbidden; it rejects a failed resolution and an
\* answer with one forbidden address among public ones.  isPrivateIP is true
\* exactly of the forbidden addresses.  An Execute that has made a Run to such
\* a source, and a Validate that reports no error of such a source, had a
\* resolution with public addresses only.
C20_ResolvedAddressesChecked ==
    /\ direct.fn = "validateSourceURL" /\ ResolvedSource(direct.url) =>
          /\ direct.resolved
          /\ direct.err.nil <=> LookupOutcome(direct.lookup) = "public"
          /\ LookupOutcome(direct.lookup) = "failed" =>
                Contains(direct.err.msg, "failed to resolve hostname")
          /\ LookupOutcome(direct.lookup) = "forbidden" =>
                Contains(direct.err.msg, "private networks are not allowed")
    /\ direct.fn = "isPrivateIP" => (direct.private <=> ForbiddenAddress(direct.ip))
    /\ \A p \in Procs :
          valErr[p].checked /\ cfg[p].APIKey # "" /\ ResolvedSource(cfg[p].Source) =>
              /\ lookupCalls[p] = 1
              /\ LookupOutcome(valErr[p].lookup) # "public" =>
                    /\ Returned(p)
                    /\ ~ret[p].resp.Success
                    /\ Contains(ret[p].resp.Error, "invalid source URL")
                    /\ calls[p] = <<>>
    /\ vreq.called /\ ResolvedSource(ValidatedSource) =>
          ((\A i \in 1..Len(vresp.Errors) : vresp.Errors[i].Field # "source")
              <=> LookupOutcome(vreq.lookup) = "public")

C20_Witness ==
    /\ direct.fn = "validateSourceURL"
    /\ direct.url = "https://localhost.n.io/"
    /\ direct.lookup.ips = <<IPv4(93, 184, 216, 34), IPv4(169, 254, 169, 254)>>
    /\ Contains(direct.err.msg, "private networks")

\* The path ends with ".nupkg" in any mix of upper and lower case.
EndsNupkg(path) ==
    /\ Len(path) >= 6
    /\ \A k \in 1..6 :
          Char(path, Len(path) - 6 + k) \in {Char(".nupkg", k), Char(".NUPKG", k)}

\* The positions of matches that hold a path with the extension.
KeptPositions(matches) == {k \in 1..Len(matches) : EndsNupkg(matches[k])}

\* result is matches without the paths that lack the extension, in the order
\* of matches.
KeepsExactlyNupkg(result, matches) ==
    /\ Len(result) = Cardinality(KeptPositions(matches))
    /\ \A i \in 1..Len(result) :
          \E k \in KeptPositions(matches) :
              /\ Cardinality({j \in KeptPositions(matches) : j < k}) = i - 1
              /\ result[i] = matches[k]

\* C21: when filepath.Glob succeeds, findPackages returns no error and the
\* paths of the expansion that end with ".nupkg" in any case, all of them and
\* in the expansion's order, also when none is left; the packages of an
\* Execute, and the package of every Run it makes, end with ".nupkg" in any
\* case.
C21_OnlyNupkgInOrder ==
    /\ direct.fn = "findPackages" /\ direct.globbed
            /\ Glob(direct.fs, direct.path).err.nil =>
          /\ direct.err.nil
          /\ KeepsExactlyNupkg(direct.packages, Glob(direct.fs, direct.path).matches)
    /\ direct.fn = "findPackages" =>
          \A i \in 1..Len(direct.packages) : EndsNupkg(direct.packages[i])
    /\ \A p \in Procs :
          /\ \A i \in 1..Len(packages[p]) : EndsNupkg(packages[p][i])
          /\ \A k \in 1..Len(calls[p]) : EndsNupkg(calls[p][k].Args[3])

C21_Witness ==
    /\ direct.fn = "findPackages"
    /\ direct.path = "*"
    /\ direct.fs = {"B.NUPKG", "d.txt", "a.nupkg"}
    /\ direct.packages = <<"B.NUPKG", "a.nupkg">>
    /\ direct.err.nil

\* The configuration an Execute resolves from the map and the environment
\* Validate was called with.
ValidatedConfig == parseConfig(vreq.config, vreq.env, sdkEmptyUnset)

\* C22: when Validate returns valid for a map whose resolved API key is not
\* empty, validateConfig accepts the configuration parseConfig resolves from
\* the same map, in the same environment and with the same answer of the DNS,
\* also when the resolved source or package path is the empty string.
C22_ValidateNotMorePermissive ==
    vreq.called /\ vresp.Valid /\ ValidatedConfig.APIKey # ""
        => validateConfig(ValidatedConfig, vreq.lookup).nil

C22_Witness ==
    /\ vreq.called
    /\ ~sdkEmptyUnset
    /\ vreq.config.api_key = StrVal("secret")
    /\ vreq.config.source = StrVal("")
    /\ vreq.config.package_path = Absent
    /\ vreq.config.timeout = Absent
    /\ vresp.Valid
    /\ Contains(validateConfig(ValidatedConfig, vreq.lookup).msg,
                "invalid source URL: source URL cannot be empty")

====
